---- MODULE Spec2Model ----
(***************************************************************************)
(* Model of src/backlight.py: BacklightDriver, its command queue, the      *)
(* animation thread (_animate) and the caller (transport) thread that      *)
(* invokes the public methods.  A position of a thread is a statement of   *)
(* the source that reads or writes a field of the driver; the threads      *)
(* interleave statement by statement.  _update_state is two steps (the     *)
(* write of the dictionary, the callback).  Sleeps only pace the animation *)
(* and are not modelled.  The caller is one thread, as in the program      *)
(* (the MQTT loop, then main's stop()).                                    *)
(***************************************************************************)
EXTENDS Integers, Sequences, FiniteSets, TLC

\* ---------------------------------------------------------------- bounds
\* number of LEDs on the strip (led_count, a constructor argument)
LedCount == 2
\* number of phase steps of one rainbow cycle (256*iterations in the source)
NumPhases == 2
\* number of methods the caller invokes after start() (stop() included)
MaxCalls == 3

\* ------------------------------------------------------ program constants
CMD_ON == 0
CMD_OFF == 1
CMD_EXIT == 2
CMD_RAINBOW == 3
CMD_SOLID == 4
CMD_CLEAR == 5

KEY_STATE == "state"
KEY_EFFECT == "effect"
KEY_COLOR == "color"
STATE_ON == "ON"
STATE_OFF == "OFF"

VALID_EFFECTS == <<"rainbow", "solid">>

\* default of turn_off(ms=50)
DefaultFadeMs == 50

\* the thread identifiers start() can hand out; 0 stands for None
ThreadIds == {1, 2}
NoThread == 0
\* the two kinds of execution context: the caller (transport) thread and an
\* animation thread
Caller == "caller"
Worker == "worker"

\* ----------------------------------------------------------------- inputs
\* effect names a caller passes to set_effect
EffectArgs == {"rainbow", "solid", "invalid"}
\* color dictionaries a caller passes to set_solid_color
ColorArgs == {[r |-> 10, g |-> 20, b |-> 30], [r |-> 255, g |-> 0, b |-> 0]}

\* ------------------------------------------------------------ pure helpers
\* neopixel.Color(red, green, blue): the three channels packed in one word
Color(a, b, c) == a * 65536 + b * 256 + c

Black == Color(0, 0, 0)

Pixels == 0 .. (LedCount - 1)

\* mutant of _wheel: the second and third segment do not shift pos
_wheel_NoShift(pos) ==
    IF pos < 85 THEN Color(pos * 3, 255 - pos * 3, 0)
    ELSE IF pos < 170 THEN Color(255 - pos * 3, 0, pos * 3)
    ELSE Color(0, pos * 3, 255 - pos * 3)

\* _wheel(pos): rainbow colors across 0-255 positions
_wheel(pos) ==
    IF pos < 85 THEN Color(pos * 3, 255 - pos * 3, 0)
    ELSE IF pos < 170 THEN Color(255 - (pos - 85) * 3, 0, (pos - 85) * 3)
    ELSE Color(0, (pos - 170) * 3, 255 - (pos - 170) * 3)

\* the hue of pixel i in phase j: (int(i * 256 / numPixels) + j) & 255
Hue(i, j) == (((i * 256) \div LedCount) + j) % 256

\* mutant of StoredColor: the channels are passed in the order r, g, b
StoredColor_RGB(color) == Color(color.r, color.g, color.b)

\* self._solid_color = Color(color['g'], color['r'], color['b'])
StoredColor(color) == Color(color.g, color.r, color.b)

\* self._state[k] = v
DictSet(d, k, v) == [x \in (DOMAIN d) \cup {k} |-> IF x = k THEN v ELSE d[x]]

\* ------------------------------------------------------------------ state
VARIABLES
    state,              \* self._state
    state_callback,     \* self._state_callback is set
    cmd_queue,          \* self._cmd_queue
    animation_thread,   \* self._animation_thread
    animation_running,  \* self._animation_running
    is_on,              \* self._is_on
    solid_color,        \* self._solid_color
    strip,              \* the pixels of self._strip, as setPixelColor wrote them
    wpc,                \* position of each animation thread
    wi,                 \* loop variable i of the render routine of each thread
    wj,                 \* loop variable j of _rainbowCycle of each thread
    wcolor,             \* argument color of _colorWipe of each thread
    wret,               \* where _colorWipe returns to
    cpc,                \* position of the caller thread
    ccont,              \* what the caller does after the current method returns
    carg,               \* argument of the method the caller is in
    issued,             \* history: the commands the caller has issued since start()
    published,          \* history: the last snapshot delivered to the state callback
    cbBy,               \* history: the contexts that have run the state callback
    track               \* history: what the worker did since the last turn_off

vars == <<state, state_callback, cmd_queue, animation_thread, animation_running,
          is_on, solid_color, strip, wpc, wi, wj, wcolor, wret,
          cpc, ccont, carg, issued, published, cbBy, track>>

driverVars == <<state, state_callback, cmd_queue, animation_thread,
                animation_running, is_on, solid_color>>
workerVars == <<wpc, wi, wj, wcolor, wret>>
callerVars == <<cpc, ccont, carg, issued>>

\* Python's None as the args of a queued command; a method without argument
None == <<>>
NoArg == [none |-> TRUE]

NoSnapshot == [none |-> TRUE]
NoTrack == [armed |-> FALSE]

\* BacklightDriver.__init__
Init ==
    /\ state = DictSet(DictSet(<<>>, KEY_STATE, STATE_OFF), KEY_EFFECT, VALID_EFFECTS[1])
    /\ state_callback = FALSE
    /\ cmd_queue = <<>>
    /\ animation_thread = NoThread
    /\ animation_running = FALSE
    /\ is_on = FALSE
    /\ solid_color = Color(255, 0, 0)
    /\ strip = [p \in Pixels |-> Black]
    /\ wpc = [w \in ThreadIds |-> "none"]
    /\ wi = [w \in ThreadIds |-> 0]
    /\ wj = [w \in ThreadIds |-> 0]
    /\ wcolor = [w \in ThreadIds |-> Black]
    /\ wret = [w \in ThreadIds |-> "loop"]
    /\ cpc = "idle"
    /\ ccont = <<>>
    /\ carg = NoArg
    /\ issued = <<>>
    /\ published = NoSnapshot
    /\ cbBy = {}
    /\ track = NoTrack


\* ------------------------------------------------- statements of the driver
\* self._cmd_queue.put((cmd, args))
Put(cmd, args) == cmd_queue' = Append(cmd_queue, [cmd |-> cmd, args |-> args])

\* _update_state, line 123: self._state[k] = v
StateSet(k, v) == state' = DictSet(state, k, v)

\* mutant of StateCb: the callback is never invoked
StateCb_Skipped(ctx) == UNCHANGED <<published, cbBy>>

\* _update_state, lines 125-126: if self._state_callback: self._state_callback(self._state)
StateCb(ctx) ==
    IF state_callback
    THEN /\ published' = state
         /\ cbBy' = cbBy \cup {ctx}
    ELSE UNCHANGED <<published, cbBy>>

\* mutant of InvalidEffect: set_effect accepts every name
InvalidEffect_Accepted(effect) == FALSE

\* effect not in self.VALID_EFFECTS
InvalidEffect(effect) == \A k \in DOMAIN VALID_EFFECTS : VALID_EFFECTS[k] # effect

\* ------------------------------------------------ history of the last turn_off
\* thread w is inside an effect render pass (_rainbowCycle, or _colorWipe called
\* from line 90)
InRainbow(w) == wpc[w] \in {"rb_set", "rb_chk", "rb_show"}
InSolidWipe(w) == wpc[w] = "wipe_pixel" /\ wret[w] = "loop"
InClearWipe(w) == wpc[w] = "wipe_pixel" /\ wret[w] = "ison"
InRender(w) == InRainbow(w) \/ InSolidWipe(w)

CmdOnQueued == \E k \in DOMAIN cmd_queue : cmd_queue[k].cmd = CMD_ON

\* the pixel writes the render pass of thread w has still to do: the rest of
\* the 256*iterations phases of _rainbowCycle, or the rest of the wipe
Remaining(w) ==
    IF InRainbow(w)
    THEN (NumPhases - wj[w] - 1) * LedCount
         + (IF wpc[w] = "rb_set" THEN LedCount - wi[w]
            ELSE IF wpc[w] = "rb_chk" THEN LedCount - wi[w] - 1
            ELSE 0)
    ELSE LedCount - wi[w]

\* turn_off assigns _is_on = False: remember what the worker was rendering, and
\* count from here what it writes (writes) and flushes (shows) before it
\* leaves the render routine (left), and what it writes first after that (next)
TrackArm ==
    IF (\E w \in ThreadIds : InRender(w)) /\ ~CmdOnQueued
    THEN LET w == CHOOSE x \in ThreadIds : InRender(x)
         IN track' = [armed |-> TRUE, w |-> w,
                      kind |-> IF InRainbow(w) THEN "rainbow" ELSE "solid",
                      j |-> wj[w], rem |-> Remaining(w), writes |-> 0, shows |-> 0,
                      left |-> FALSE, next |-> "none"]
    ELSE track' = NoTrack

Tracking(w) == track.armed /\ track.w = w

\* thread w executes show in _rainbowCycle; leaving: the cycle ends after it
TrackShow(w, leaving) ==
    IF Tracking(w) /\ ~track.left
    THEN track' = [track EXCEPT !.shows = @ + 1, !.left = leaving]
    ELSE UNCHANGED track

\* thread w returns from _rainbowCycle at line 135
TrackLeave(w) ==
    IF Tracking(w) /\ ~track.left
    THEN track' = [track EXCEPT !.left = TRUE]
    ELSE UNCHANGED track

\* thread w writes one pixel; showed: it also flushes; leaving: the render
\* routine returns after that
TrackPixel(w, showed, leaving) ==
    IF Tracking(w) /\ ~track.left
    THEN track' = [track EXCEPT !.writes = @ + 1,
                                !.shows = @ + (IF showed THEN 1 ELSE 0),
                                !.left = leaving]
    ELSE IF Tracking(w) /\ track.next = "none"
    THEN track' = [track EXCEPT !.next = IF InClearWipe(w) THEN "clear" ELSE "effect"]
    ELSE UNCHANGED track

\* ------------------------------------------------------------- the caller
Started == animation_thread # NoThread

\* the method the caller is in returns
Return ==
    IF ccont = <<>>
    THEN /\ cpc' = "idle"
         /\ ccont' = ccont
    ELSE /\ cpc' = Head(ccont)
         /\ ccont' = Tail(ccont)

\* the threads start() has created
Threads == {w \in ThreadIds : wpc[w] # "none"}

\* the caller enters a method of the started controller; after a repeated
\* start() the caller issues nothing more
Issue(call, pc, arg, cont) ==
    /\ cpc = "idle"
    /\ Started
    /\ Cardinality(Threads) = 1
    /\ issued' = Append(issued, call)
    /\ cpc' = pc
    /\ carg' = arg
    /\ ccont' = cont
    /\ track' = NoTrack
    /\ UNCHANGED <<driverVars, strip, workerVars, published, cbBy>>

CanIssue == Len(issued) < MaxCalls

\* set_state_callback
SetStateCallback ==
    /\ cpc = "idle"
    /\ ~state_callback
    /\ ~Started
    /\ state_callback' = TRUE
    /\ UNCHANGED <<state, cmd_queue, animation_thread, animation_running, is_on,
                   solid_color, strip, workerVars, callerVars, published, cbBy,
                   track>>

\* the caller invokes start() on a controller that has no thread yet; the
\* program does so after it registered the callback (lines 166 and 178)
CallStart ==
    /\ cpc = "idle"
    /\ ~Started
    /\ state_callback
    /\ cpc' = "start_thread"
    /\ UNCHANGED <<driverVars, strip, workerVars, ccont, carg, issued,
                   published, cbBy, track>>

\* the caller invokes start() again, right after the first start() returned
CallStartAgain ==
    /\ cpc = "idle"
    /\ Started
    /\ issued = <<>>
    /\ \E w \in ThreadIds : wpc[w] = "none"
    /\ cpc' = "start_thread"
    /\ UNCHANGED <<driverVars, strip, workerVars, ccont, carg, issued,
                   published, cbBy, track>>

CallTurnOn == CanIssue /\ Issue([op |-> "turn_on"], "on_ison", NoArg, <<>>)

CallTurnOff ==
    CanIssue /\ Issue([op |-> "turn_off"], "off_ison", [ms |-> DefaultFadeMs], <<>>)

\* set_effect(effect), lines 105-107: an invalid effect is logged and the
\* method returns
CallSetEffect ==
    /\ CanIssue
    /\ \E e \in EffectArgs :
          Issue([op |-> "set_effect", effect |-> e],
                IF InvalidEffect(e) THEN "idle" ELSE "eff_set",
                IF InvalidEffect(e) THEN NoArg ELSE [effect |-> e], <<>>)

CallSetSolidColor ==
    /\ CanIssue
    /\ \E c \in ColorArgs : Issue([op |-> "set_solid_color", color |-> c], "col_store", [color |-> c], <<>>)

\* stop(), line 66: self.turn_off(), then the rest of stop
CallStop == CanIssue /\ Issue([op |-> "stop"], "off_ison", [ms |-> DefaultFadeMs], <<"stop_run">>)

\* start(), lines 58-60: the thread is created, flagged running and started
StartThread ==
    /\ cpc = "start_thread"
    /\ \E w \in ThreadIds :
        /\ wpc[w] = "none"
        /\ \A x \in ThreadIds : wpc[x] = "none" => w <= x
        /\ animation_thread' = w
        /\ wpc' = [wpc EXCEPT ![w] = "loop"]
    /\ animation_running' = TRUE
    /\ cpc' = "start_ison"
    /\ UNCHANGED <<state, state_callback, cmd_queue, is_on, solid_color, strip,
                   wi, wj, wcolor, wret, ccont, carg, issued, published, cbBy, track>>

\* start(), line 62
StartIsOn ==
    /\ cpc = "start_ison"
    /\ is_on' = TRUE
    /\ cpc' = "start_set"
    /\ UNCHANGED <<state, state_callback, cmd_queue, animation_thread,
                   animation_running, solid_color, strip, workerVars, ccont,
                   carg, issued, published, cbBy, track>>

\* start(), line 63: _update_state(KEY_STATE, STATE_ON)
StartUpdate ==
    \/ /\ cpc = "start_set"
       /\ StateSet(KEY_STATE, STATE_ON)
       /\ cpc' = "start_cb"
       /\ UNCHANGED <<state_callback, cmd_queue, animation_thread, animation_running,
                      is_on, solid_color, strip, workerVars, ccont, carg, issued,
                      published, cbBy, track>>
    \/ /\ cpc = "start_cb"
       /\ StateCb(Caller)
       /\ cpc' = "idle"
       /\ UNCHANGED <<driverVars, strip, workerVars, ccont, carg, issued, track>>

\* mutant of CallerTurnOn: turn_on also resets the effect to the default
CallerTurnOn_Resets ==
    \/ /\ cpc = "on_ison"
       /\ is_on' = TRUE
       /\ cpc' = "on_set"
       /\ UNCHANGED <<state, state_callback, cmd_queue, animation_thread,
                      animation_running, solid_color, strip, workerVars, ccont,
                      carg, issued, published, cbBy, track>>
    \/ /\ cpc = "on_set"
       /\ state' = DictSet(DictSet(state, KEY_STATE, STATE_ON), KEY_EFFECT, VALID_EFFECTS[1])
       /\ cpc' = "on_cb"
       /\ UNCHANGED <<state_callback, cmd_queue, animation_thread, animation_running,
                      is_on, solid_color, strip, workerVars, ccont, carg, issued,
                      published, cbBy, track>>
    \/ /\ cpc = "on_cb"
       /\ StateCb(Caller)
       /\ Return
       /\ UNCHANGED <<driverVars, strip, workerVars, carg, issued, track>>

\* turn_on on the caller thread
CallerTurnOn ==
    \/ /\ cpc = "on_ison"
       /\ is_on' = TRUE
       /\ cpc' = "on_set"
       /\ UNCHANGED <<state, state_callback, cmd_queue, animation_thread,
                      animation_running, solid_color, strip, workerVars, ccont,
                      carg, issued, published, cbBy, track>>
    \/ /\ cpc = "on_set"
       /\ StateSet(KEY_STATE, STATE_ON)
       /\ cpc' = "on_cb"
       /\ UNCHANGED <<state_callback, cmd_queue, animation_thread, animation_running,
                      is_on, solid_color, strip, workerVars, ccont, carg, issued,
                      published, cbBy, track>>
    \/ /\ cpc = "on_cb"
       /\ StateCb(Caller)
       /\ Return
       /\ UNCHANGED <<driverVars, strip, workerVars, carg, issued, track>>

\* turn_off on the caller thread
CallerTurnOff ==
    \/ /\ cpc = "off_ison"
       /\ is_on' = FALSE
       /\ TrackArm
       /\ cpc' = "off_set"
       /\ UNCHANGED <<state, state_callback, cmd_queue, animation_thread,
                      animation_running, solid_color, strip, workerVars, ccont,
                      carg, issued, published, cbBy>>
    \/ /\ cpc = "off_set"
       /\ StateSet(KEY_STATE, STATE_OFF)
       /\ cpc' = "off_cb"
       /\ UNCHANGED <<state_callback, cmd_queue, animation_thread, animation_running,
                      is_on, solid_color, strip, workerVars, ccont, carg, issued,
                      published, cbBy, track>>
    \/ /\ cpc = "off_cb"
       /\ StateCb(Caller)
       /\ cpc' = "off_put"
       /\ UNCHANGED <<driverVars, strip, workerVars, ccont, carg, issued, track>>
    \/ /\ cpc = "off_put"
       /\ Put(CMD_CLEAR, <<carg.ms>>)
       /\ Return
       /\ UNCHANGED <<state, state_callback, animation_thread, animation_running,
                      is_on, solid_color, strip, workerVars, carg, issued,
                      published, cbBy, track>>

\* set_effect, lines 109-111
SetEffect ==
    \/ /\ cpc = "eff_set"
       /\ StateSet(KEY_EFFECT, carg.effect)
       /\ cpc' = "eff_cb"
       /\ UNCHANGED <<state_callback, cmd_queue, animation_thread, animation_running,
                      is_on, solid_color, strip, workerVars, ccont, carg, issued,
                      published, cbBy, track>>
    \/ /\ cpc = "eff_cb"
       /\ StateCb(Caller)
       /\ cpc' = "eff_ison"
       /\ UNCHANGED <<driverVars, strip, workerVars, ccont, carg, issued, track>>
    \/ /\ cpc = "eff_ison"
       /\ is_on' = FALSE
       /\ cpc' = "eff_put"
       /\ UNCHANGED <<state, state_callback, cmd_queue, animation_thread,
                      animation_running, solid_color, strip, workerVars, ccont,
                      carg, issued, published, cbBy, track>>
    \/ /\ cpc = "eff_put"
       /\ Put(CMD_ON, None)
       /\ Return
       /\ UNCHANGED <<state, state_callback, animation_thread, animation_running,
                      is_on, solid_color, strip, workerVars, carg, issued,
                      published, cbBy, track>>

\* set_solid_color
SetSolidColor ==
    \/ /\ cpc = "col_store"
       /\ solid_color' = StoredColor(carg.color)
       /\ cpc' = "col_set"
       /\ UNCHANGED <<state, state_callback, cmd_queue, animation_thread,
                      animation_running, is_on, strip, workerVars, ccont, carg,
                      issued, published, cbBy, track>>
    \/ /\ cpc = "col_set"
       /\ StateSet(KEY_COLOR, carg.color)
       /\ cpc' = "col_cb"
       /\ UNCHANGED <<state_callback, cmd_queue, animation_thread, animation_running,
                      is_on, solid_color, strip, workerVars, ccont, carg, issued,
                      published, cbBy, track>>
    \/ /\ cpc = "col_cb"
       /\ StateCb(Caller)
       /\ Return
       /\ UNCHANGED <<driverVars, strip, workerVars, carg, issued, track>>

\* mutant of StopRun: stop() does not clear _animation_running
StopRun_FlagKept ==
    /\ cpc = "stop_run"
    /\ cpc' = "stop_join"
    /\ UNCHANGED <<driverVars, strip, workerVars, ccont, carg, issued, published,
                   cbBy, track>>

\* stop(), line 67
StopRun ==
    /\ cpc = "stop_run"
    /\ animation_running' = FALSE
    /\ cpc' = "stop_join"
    /\ UNCHANGED <<state, state_callback, cmd_queue, animation_thread, is_on,
                   solid_color, strip, workerVars, ccont, carg, issued, published,
                   cbBy, track>>

\* a thread has ended: its loop exited, or an exception ended it
Ended(w) == wpc[w] \in {"exited", "crashed"}

\* stop(), lines 68-69: join the thread start() stored last
StopJoin ==
    /\ cpc = "stop_join"
    /\ animation_thread # NoThread => Ended(animation_thread)
    /\ cpc' = "stop_set"
    /\ UNCHANGED <<driverVars, strip, workerVars, ccont, carg, issued, published,
                   cbBy, track>>

\* stop(), line 71: _update_state(KEY_STATE, STATE_OFF); then stop returns
StopUpdate ==
    \/ /\ cpc = "stop_set"
       /\ StateSet(KEY_STATE, STATE_OFF)
       /\ cpc' = "stop_cb"
       /\ UNCHANGED <<state_callback, cmd_queue, animation_thread, animation_running,
                      is_on, solid_color, strip, workerVars, ccont, carg, issued,
                      published, cbBy, track>>
    \/ /\ cpc = "stop_cb"
       /\ StateCb(Caller)
       /\ cpc' = "stopped"
       /\ UNCHANGED <<driverVars, strip, workerVars, ccont, carg, issued, track>>


\* ------------------------------------------------- the animation thread(s)
\* _animate, line 74: while self._animation_running
WLoop(w) ==
    /\ wpc[w] = "loop"
    /\ wpc' = [wpc EXCEPT ![w] = IF animation_running THEN "empty" ELSE "exited"]
    /\ UNCHANGED <<driverVars, strip, wi, wj, wcolor, wret, callerVars,
                   published, cbBy, track>>

\* mutant of WEmpty: the thread calls get() without looking at empty()
WEmpty_NoCheck(w) ==
    /\ wpc[w] = "empty"
    /\ wpc' = [wpc EXCEPT ![w] = "get"]
    /\ UNCHANGED <<driverVars, strip, wi, wj, wcolor, wret, callerVars,
                   published, cbBy, track>>

\* _animate, line 75: if not self._cmd_queue.empty()
WEmpty(w) ==
    /\ wpc[w] = "empty"
    /\ wpc' = [wpc EXCEPT ![w] = IF cmd_queue # <<>> THEN "get" ELSE "ison"]
    /\ UNCHANGED <<driverVars, strip, wi, wj, wcolor, wret, callerVars,
                   published, cbBy, track>>

\* mutant of Dispatch: CMD_ON is dequeued and ignored
Dispatch_DropsOn(cmd) ==
    IF cmd = CMD_CLEAR THEN "wipe_pixel" ELSE "ison"

\* _animate, lines 79-84: where the dequeued command sends the thread.  No
\* statement of the source enqueues CMD_OFF, so "t_off" is never entered.
Dispatch(cmd) ==
    IF cmd = CMD_ON THEN "t_ison"
    ELSE IF cmd = CMD_OFF THEN "t_off"
    ELSE IF cmd = CMD_CLEAR THEN "wipe_pixel"
    ELSE "ison"

\* _animate, lines 76-84: (cmd, args) = self._cmd_queue.get(timeout=0.5) and the
\* dispatch on cmd.  On an empty queue get() raises queue.Empty after the
\* timeout; nothing catches it and the thread ends.
WGet(w) ==
    /\ wpc[w] = "get"
    /\ IF cmd_queue = <<>>
       THEN /\ wpc' = [wpc EXCEPT ![w] = "crashed"]
            /\ UNCHANGED <<cmd_queue, wi, wcolor, wret>>
       ELSE /\ cmd_queue' = Tail(cmd_queue)
            /\ wpc' = [wpc EXCEPT ![w] = Dispatch(Head(cmd_queue).cmd)]
            /\ wi' = [wi EXCEPT ![w] = 0]
            /\ wcolor' = [wcolor EXCEPT ![w] = Black]
            /\ wret' = [wret EXCEPT ![w] =
                           IF Head(cmd_queue).cmd = CMD_CLEAR THEN "ison" ELSE "loop"]
    /\ UNCHANGED <<state, state_callback, animation_thread, animation_running,
                   is_on, solid_color, strip, wj, callerVars, published, cbBy,
                   track>>

\* _animate, line 80: self.turn_on() on the animation thread
WTurnOn(w) ==
    \/ /\ wpc[w] = "t_ison"
       /\ is_on' = TRUE
       /\ wpc' = [wpc EXCEPT ![w] = "t_set"]
       /\ UNCHANGED <<state, state_callback, cmd_queue, animation_thread,
                      animation_running, solid_color, strip, wi, wj, wcolor, wret,
                      callerVars, published, cbBy, track>>
    \/ /\ wpc[w] = "t_set"
       /\ StateSet(KEY_STATE, STATE_ON)
       /\ wpc' = [wpc EXCEPT ![w] = "t_cb"]
       /\ UNCHANGED <<state_callback, cmd_queue, animation_thread, animation_running,
                      is_on, solid_color, strip, wi, wj, wcolor, wret, callerVars,
                      published, cbBy, track>>
    \/ /\ wpc[w] = "t_cb"
       /\ StateCb(Worker)
       /\ wpc' = [wpc EXCEPT ![w] = "ison"]
       /\ UNCHANGED <<driverVars, strip, wi, wj, wcolor, wret, callerVars, track>>

\* mutant of WIsOn: the thread renders whatever _is_on says
WIsOn_Always(w) ==
    /\ wpc[w] = "ison"
    /\ wpc' = [wpc EXCEPT ![w] = "effect"]
    /\ UNCHANGED <<driverVars, strip, wi, wj, wcolor, wret, callerVars,
                   published, cbBy, track>>

\* _animate, line 86: if self._is_on
WIsOn(w) ==
    /\ wpc[w] = "ison"
    /\ wpc' = [wpc EXCEPT ![w] = IF is_on THEN "effect" ELSE "loop"]
    /\ UNCHANGED <<driverVars, strip, wi, wj, wcolor, wret, callerVars,
                   published, cbBy, track>>

\* _animate, lines 87-90: dispatch on self._state[KEY_EFFECT]
WEffect(w) ==
    /\ wpc[w] = "effect"
    /\ wpc' = [wpc EXCEPT ![w] =
                  IF state[KEY_EFFECT] = "rainbow" THEN "rb_set"
                  ELSE IF state[KEY_EFFECT] = "solid" THEN "wipe_pixel"
                  ELSE "loop"]
    /\ wi' = [wi EXCEPT ![w] = 0]
    /\ wj' = [wj EXCEPT ![w] = 0]
    /\ wcolor' = [wcolor EXCEPT ![w] =
                     IF state[KEY_EFFECT] = "solid" THEN solid_color ELSE Black]
    /\ wret' = [wret EXCEPT ![w] = "loop"]
    /\ UNCHANGED <<driverVars, strip, callerVars, published, cbBy, track>>

\* mutant of RainbowAbort: the cycle does not look at _is_on
RainbowAbort_Never == FALSE

\* _rainbowCycle, line 134: if not self._is_on
RainbowAbort == ~is_on

\* the inner loop of _rainbowCycle has a next pixel; the outer loop a next phase
MorePixels(w) == wi[w] + 1 < LedCount
MorePhases(w) == wj[w] + 1 < NumPhases

\* _rainbowCycle, line 132: setPixelColor(i, _wheel(hue))
RbSet(w) ==
    /\ wpc[w] = "rb_set"
    /\ strip' = [strip EXCEPT ![wi[w]] = _wheel(Hue(wi[w], wj[w]))]
    /\ TrackPixel(w, FALSE, FALSE)
    /\ wpc' = [wpc EXCEPT ![w] = "rb_chk"]
    /\ UNCHANGED <<driverVars, wi, wj, wcolor, wret, callerVars, published, cbBy>>

\* _rainbowCycle, lines 134-135, and the step of the inner loop (line 131)
RbChk(w) ==
    /\ wpc[w] = "rb_chk"
    /\ IF RainbowAbort
       THEN /\ wpc' = [wpc EXCEPT ![w] = "loop"]
            /\ wi' = [wi EXCEPT ![w] = 0]
            /\ wj' = [wj EXCEPT ![w] = 0]
            /\ TrackLeave(w)
       ELSE /\ wpc' = [wpc EXCEPT ![w] = IF MorePixels(w) THEN "rb_set" ELSE "rb_show"]
            /\ wi' = [wi EXCEPT ![w] = IF MorePixels(w) THEN wi[w] + 1 ELSE 0]
            /\ UNCHANGED <<wj, track>>
    /\ UNCHANGED <<driverVars, strip, wcolor, wret, callerVars, published, cbBy>>

\* _rainbowCycle, lines 137-138: show() and the sleep, and the step of the outer
\* loop (line 130)
RbShow(w) ==
    /\ wpc[w] = "rb_show"
    /\ TrackShow(w, ~MorePhases(w))
    /\ wpc' = [wpc EXCEPT ![w] = IF MorePhases(w) THEN "rb_set" ELSE "loop"]
    /\ wj' = [wj EXCEPT ![w] = IF MorePhases(w) THEN wj[w] + 1 ELSE 0]
    /\ UNCHANGED <<driverVars, strip, wi, wcolor, wret, callerVars, published, cbBy>>

\* _colorWipe, lines 143-146, one pass of the loop: setPixelColor(i, color),
\* show() and the sleep.  The three touch nothing but the strip, which only
\* animation threads use, so they are one step.
WipePixel(w) ==
    /\ wpc[w] = "wipe_pixel"
    /\ strip' = [strip EXCEPT ![wi[w]] = wcolor[w]]
    /\ TrackPixel(w, TRUE, ~MorePixels(w))
    /\ IF MorePixels(w)
       THEN /\ wi' = [wi EXCEPT ![w] = wi[w] + 1]
            /\ UNCHANGED <<wpc, wcolor, wret>>
       ELSE /\ wpc' = [wpc EXCEPT ![w] = wret[w]]
            /\ wi' = [wi EXCEPT ![w] = 0]
            /\ wcolor' = [wcolor EXCEPT ![w] = Black]
            /\ wret' = [wret EXCEPT ![w] = "loop"]
    /\ UNCHANGED <<driverVars, wj, callerVars, published, cbBy>>

\* ------------------------------------------------------- the specifications
\* one statement of an animation thread
WorkerNext ==
    \E w \in ThreadIds :
        \/ WLoop(w)
        \/ WEmpty(w)
        \/ WGet(w)
        \/ WTurnOn(w)
        \/ WIsOn(w)
        \/ WEffect(w)
        \/ RbSet(w)
        \/ RbChk(w)
        \/ RbShow(w)
        \/ WipePixel(w)

\* one statement of a method the caller has entered
CallerContinue ==
    \/ StartThread
    \/ StartIsOn
    \/ StartUpdate
    \/ CallerTurnOn
    \/ CallerTurnOff
    \/ SetEffect
    \/ SetSolidColor
    \/ StopRun
    \/ StopJoin
    \/ StopUpdate

\* the caller enters a method
CallerCall ==
    \/ SetStateCallback
    \/ CallStart
    \/ CallTurnOn
    \/ CallTurnOff
    \/ CallSetEffect
    \/ CallSetSolidColor
    \/ CallStop

Next == CallerCall \/ CallerContinue \/ WorkerNext

\* the program: start() is called once (BacklightMqttClient.__init__)
Spec == Init /\ [][Next]_vars

\* threads that can take a step eventually take it; the caller is free never to
\* enter another method
FairSpec == Spec /\ WF_vars(WorkerNext) /\ WF_vars(CallerContinue)

\* the public interface: start() may be called again
SpecRestart == Init /\ [][Next \/ CallStartAgain]_vars

\* ------------------------------------------------------------- the claims
\* a thread has seen the queue non-empty or dequeued a command, and is not done
\* with it
Handling(w) ==
    \/ wpc[w] \in {"get", "t_ison", "t_set", "t_cb", "t_off"}
    \/ InClearWipe(w)

\* the worker has drained the queue
Drained == cmd_queue = <<>> /\ \A w \in Threads : ~Handling(w)

\* the caller is in no method, and the worker has drained the queue
AtRest == cpc = "idle" /\ Started /\ Drained

AllPixels(color) == \A p \in Pixels : strip[p] = color

LastCall == issued[Len(issued)]

\* the power after the calls are applied one after another, each with all it
\* enqueues: start() leaves the power on, turn_on and a valid set_effect (through
\* its CMD_ON) turn it on, turn_off and stop turn it off
RECURSIVE SeqPower(_)
SeqPower(calls) ==
    IF calls = <<>> THEN TRUE
    ELSE LET c == calls[Len(calls)]
         IN IF c.op = "turn_on" THEN TRUE
            ELSE IF c.op \in {"turn_off", "stop"} THEN FALSE
            ELSE IF c.op = "set_effect" /\ ~InvalidEffect(c.effect) THEN TRUE
            ELSE SeqPower(SubSeq(calls, 1, Len(calls) - 1))

\* C1: once the caller's calls have returned and the worker has drained the
\* queue, the power (_is_on and the state entry) is the one the calls give when
\* applied one after another in the order of issuance.
C1_OrderOfIssuance ==
    AtRest =>
        /\ is_on = SeqPower(issued)
        /\ state[KEY_STATE] = (IF SeqPower(issued) THEN STATE_ON ELSE STATE_OFF)

\* C2: when turn_off() is the last call and the system has come to rest (the
\* caller is idle, the queue drained: nothing but rendering can follow), the
\* power is OFF and every pixel is black.
C2_TurnOffLeadsToOff ==
    (AtRest /\ issued # <<>> /\ LastCall.op = "turn_off") =>
        /\ ~is_on
        /\ state[KEY_STATE] = STATE_OFF
        /\ AllPixels(Black)

\* C3: after turn_off() cleared _is_on while the worker was in _rainbowCycle
\* (no CMD_ON queued, no later call), the worker writes at most one more
\* rainbow pixel and flushes at most once before it leaves the cycle, and the
\* first pixel it writes after that belongs to the clear wipe.
C3_RainbowResponsive ==
    (track.armed /\ track.kind = "rainbow") =>
        /\ track.writes <= 1
        /\ track.shows <= 1
        /\ track.next \in {"none", "clear"}

\* C3 witness: turn_off() came in the first phase of a cycle with phases still
\* to go; the worker left the cycle and started the clear wipe.
C3_Witness ==
    /\ track.armed
    /\ track.kind = "rainbow"
    /\ track.j + 1 < NumPhases
    /\ track.rem > LedCount
    /\ track.left
    /\ track.next = "clear"

\* C4: after turn_off() cleared _is_on during a render pass, rainbow or solid,
\* that had more than one pixel write to go, the worker leaves the pass
\* without doing all of them.
C4_CancelEveryEffect ==
    (track.armed /\ track.rem > 1) => track.writes < track.rem

\* the caller is inside stop()
InStop ==
    \/ ccont = <<"stop_run">>
    \/ cpc \in {"stop_run", "stop_join", "stop_set", "stop_cb"}

\* C5: a call of stop() on a started controller returns, the worker having
\* left its loop.
C5_StopReturns == InStop ~> (cpc = "stopped" /\ Ended(animation_thread))

\* C5 witness: stop() has returned although a command was still queued.
C5_Witness == cpc = "stopped" /\ wpc[animation_thread] = "exited" /\ cmd_queue # <<>>

\* C6: when stop() has returned, the clear wipe of its turn_off has run: every
\* pixel is black.
C6_StopClears == cpc = "stopped" => AllPixels(Black)

\* thread w is at a strip operation (setPixelColor, show)
InStripOp(w) == wpc[w] \in {"rb_set", "rb_show", "wipe_pixel"}

\* C7: at most one animation thread exists, and no two threads are at a strip
\* operation at the same time.
C7_SingleWorker ==
    /\ Cardinality({w \in Threads : ~Ended(w)}) <= 1
    /\ Cardinality({w \in Threads : InStripOp(w)}) <= 1

\* C8: the state callback is run by the animation thread only.
C8_CallbackOnWorker == cbBy \subseteq {Worker}

\* the last three calls are set_solid_color(c), set_effect("solid"), turn_on()
EndsWithRoundTrip(c) ==
    /\ Len(issued) >= 3
    /\ issued[Len(issued) - 2] = [op |-> "set_solid_color", color |-> c]
    /\ issued[Len(issued) - 1] = [op |-> "set_effect", effect |-> "solid"]
    /\ issued[Len(issued)] = [op |-> "turn_on"]

\* C9: after set_solid_color(c), set_effect("solid"), turn_on(), when the
\* worker has drained the queue, the last snapshot the callback received is
\* {state: ON, effect: solid, color: c}.
C9_RoundTrip ==
    \A c \in ColorArgs :
        (AtRest /\ EndsWithRoundTrip(c)) =>
            published = [state |-> "ON", effect |-> "solid", color |-> c]

\* C9 witness: the round trip is done, the queue is drained, and the last
\* snapshot came after the worker applied the CMD_ON of set_effect.
C9_Witness ==
    /\ AtRest
    /\ \E c \in ColorArgs : EndsWithRoundTrip(c) /\ published[KEY_COLOR] = c
    /\ Worker \in cbBy

\* C10: after set_solid_color(c), set_effect("solid"), turn_on() and nothing
\* else, every pixel eventually holds Color(c.g, c.r, c.b), the color
\* set_solid_color stores for c, and keeps it for ever.
C10_OrderReachesStrip ==
    \A c \in ColorArgs :
        [](EndsWithRoundTrip(c) /\ Len(issued) = MaxCalls
            => <>[]AllPixels(Color(c.g, c.r, c.b)))

\* C10 witness: the round trip was the caller's last word and the worker is
\* wiping the stored color over a strip that already holds it.
C10_Witness ==
    \E c \in ColorArgs :
        /\ EndsWithRoundTrip(c)
        /\ Len(issued) = MaxCalls
        /\ AllPixels(Color(c.g, c.r, c.b))
        /\ \E w \in Threads : InSolidWipe(w) /\ wcolor[w] = Color(c.g, c.r, c.b)

\* the caller thread takes a step: it enters a method or executes a statement
CallerStep == cpc' # cpc \/ issued' # issued

\* the names set_effect may be given according to its class attribute
ValidEffectNames == {"rainbow", "solid"}

\* the call the caller issued last is set_effect with a name that is not valid
InInvalidSetEffect ==
    /\ issued # <<>>
    /\ LastCall.op = "set_effect"
    /\ LastCall.effect \notin ValidEffectNames

\* C11: set_effect with a name that is not a valid effect is a no-op: no step
\* of the call changes the power, the state dictionary (effect, color), the
\* stored color or the queue, none delivers a snapshot, and the worker is
\* where it was.
C11_InvalidEffectNoOp ==
    [][(CallerStep /\ InInvalidSetEffect') =>
          UNCHANGED <<is_on, state, solid_color, cmd_queue, published, cbBy, wpc>>]_vars

\* C11 witness: set_effect("invalid") has returned while the worker wipes the
\* solid color an earlier set_effect("solid") selected.
C11_Witness ==
    /\ InInvalidSetEffect
    /\ cpc = "idle"
    /\ state[KEY_EFFECT] = "solid"
    /\ \E w \in Threads : InSolidWipe(w)

\* ------------------------------------------------- the MQTT command handler
\* a color dictionary without the key 'b': color['b'] raises KeyError
BadColor == [r |-> 10, g |-> 20]

\* payloads of messages on the command topic: text that is no JSON, a JSON
\* number, and JSON objects
Payloads ==
    { [kind |-> "text"],
      [kind |-> "number"],
      [kind |-> "object", obj |-> [state |-> "ON"]],
      [kind |-> "object", obj |-> [state |-> "OFF", color |-> BadColor]],
      [kind |-> "object", obj |-> [effect |-> "solid", color |-> [r |-> 10, g |-> 20, b |-> 30]]],
      [kind |-> "object", obj |-> [color |-> BadColor]] }

\* set_solid_color, line 115: color['g'], color['r'], color['b'] raise on a
\* dictionary that lacks one of the keys
Malformed(color) == ~({"r", "g", "b"} \subseteq DOMAIN color)

\* the dictionary _on_command works on, and the default ms of the turn_off it
\* may call
CommandArg(command) ==
    [k \in (DOMAIN command) \cup {"ms"} |->
        IF k = "ms" THEN DefaultFadeMs ELSE command[k]]

\* _on_message, lines 212-221: json.loads raises ValueError on text that is no
\* JSON; _on_command raises TypeError at line 181 on a number; both are logged
\* and _on_message returns.  An object is handed to _on_command.
OnMessage ==
    /\ CanIssue
    /\ \E p \in Payloads :
          Issue([op |-> "message", payload |-> p],
                IF p.kind = "object" THEN "cmd_state" ELSE "idle",
                IF p.kind = "object" THEN CommandArg(p.obj) ELSE NoArg, <<>>)

\* _on_command, lines 181-194: the keys state, effect, color in this order; an
\* exception of set_solid_color ends the handler (lines 216-221 log it)
OnCommand ==
    \/ /\ cpc = "cmd_state"
       /\ IF "state" \in DOMAIN carg /\ carg.state = "ON"
          THEN cpc' = "on_ison" /\ ccont' = <<"cmd_effect">>
          ELSE IF "state" \in DOMAIN carg /\ carg.state = "OFF"
          THEN cpc' = "off_ison" /\ ccont' = <<"cmd_effect">>
          ELSE cpc' = "cmd_effect" /\ ccont' = <<>>
       /\ UNCHANGED <<driverVars, strip, workerVars, carg, issued, published,
                      cbBy, track>>
    \/ /\ cpc = "cmd_effect"
       /\ IF "effect" \in DOMAIN carg /\ ~InvalidEffect(carg.effect)
          THEN cpc' = "eff_set" /\ ccont' = <<"cmd_color">>
          ELSE cpc' = "cmd_color" /\ ccont' = <<>>
       /\ UNCHANGED <<driverVars, strip, workerVars, carg, issued, published,
                      cbBy, track>>
    \/ /\ cpc = "cmd_color"
       /\ cpc' = IF "color" \in DOMAIN carg /\ ~Malformed(carg.color)
                 THEN "col_store" ELSE "idle"
       /\ UNCHANGED <<driverVars, strip, workerVars, ccont, carg, issued,
                      published, cbBy, track>>

\* the program as main runs it: the driver's methods are called by the handler
\* of MQTT messages, and stop() at the end
MqttNext ==
    \/ SetStateCallback
    \/ CallStart
    \/ OnMessage
    \/ OnCommand
    \/ CallStop
    \/ CallerContinue
    \/ WorkerNext

SpecMqtt == Init /\ [][MqttNext]_vars

\* handling of the payload ends in a logged error
ErrorPayload(p) ==
    \/ p.kind # "object"
    \/ "color" \in DOMAIN p.obj /\ Malformed(p.obj.color)

\* the caller is handling, or handled last, a message that ends in an error
InErrorMessage ==
    /\ issued # <<>>
    /\ LastCall.op = "message"
    /\ ErrorPayload(LastCall.payload)

\* C12: when the handling of a command payload ends in a logged error, no
\* step of the handling changes the power, the state dictionary (effect,
\* color), the stored color or the queue, and the worker is where it was.
C12_MalformedPayloadNoChange ==
    [][(CallerStep /\ InErrorMessage') =>
          UNCHANGED <<is_on, state, solid_color, cmd_queue, wpc>>]_vars

\* ------------------------------------------------------- a failing device
\* setPixelColor or show raises while thread w is at a strip operation
\* (lines 132, 137, 144, 145).  Neither the render routines nor _animate catch
\* anything, so the exception leaves _animate and the thread ends.
StripFails(w) ==
    /\ InStripOp(w)
    /\ wpc' = [wpc EXCEPT ![w] = "crashed"]
    /\ UNCHANGED <<driverVars, strip, wi, wj, wcolor, wret, callerVars,
                   published, cbBy, track>>

DeviceFails == \E w \in ThreadIds : StripFails(w)

\* the program on a device whose strip operations may fail
SpecFault == Init /\ [][Next \/ DeviceFails]_vars

\* C13: a strip operation that fails does not end the animation thread: no
\* thread is ever ended by an exception.
C13_FailureContained == \A w \in Threads : wpc[w] # "crashed"

\* -------------------------------------------------------- the initial state
\* no call that turns the power on (turn_on, set_effect) has been issued
NoTurnOnIssued ==
    \A k \in DOMAIN issued : issued[k].op \notin {"turn_on", "set_effect"}

\* the power is off: the flag, the state entry, and what was published if
\* anything was; no thread is in an effect render pass
PowerOff ==
    /\ ~is_on
    /\ state[KEY_STATE] = STATE_OFF
    /\ published # NoSnapshot => published[KEY_STATE] = STATE_OFF
    /\ \A w \in ThreadIds : ~InRender(w)

\* start() has not yet executed self._is_on = True (line 62)
BeforeStartIsOn == ~Started \/ (cpc = "start_ison" /\ issued = <<>>)

\* C14 (as stated): a controller that has been constructed and started, and
\* to which no turn_on or set_effect has been issued, has power OFF and its
\* worker renders no effect frame.
C14_InitialOff == (Started /\ cpc = "idle" /\ NoTurnOnIssued) => PowerOff

\* C14 (amended): the state after construction is OFF, and it stays OFF, the
\* strip black and unrendered even with the worker running, until start()
\* executes self._is_on = True; when start() has returned and no command has
\* been issued the power is ON.
C14_OffUntilStartTurnsOn ==
    /\ BeforeStartIsOn => (PowerOff /\ published = NoSnapshot /\ AllPixels(Black))
    /\ (Started /\ cpc = "idle" /\ issued = <<>>) =>
           (is_on /\ state[KEY_STATE] = STATE_ON /\ published[KEY_STATE] = STATE_ON)

\* C14 witness: start() has started the thread but not yet set _is_on, and the
\* thread is at its test of _is_on.
C14_Witness == cpc = "start_ison" /\ \E w \in Threads : wpc[w] = "ison"

\* ------------------------------------------------------------- idempotence
\* the power is on: the flag and the state entry
PowerOn == is_on /\ state[KEY_STATE] = STATE_ON

\* the effect and the color a snapshot carries
EffectAndColor(snapshot) ==
    [k \in (DOMAIN snapshot) \ {KEY_STATE} |-> snapshot[k]]

\* the caller executes a statement of turn_on
TurnOnStep == cpc \in {"on_ison", "on_set", "on_cb"} /\ cpc' # cpc

\* C15: turn_on() while the power is ON is idempotent: no statement of it
\* changes the power, the state dictionary (effect, color), the stored color
\* or the queue, and the snapshot it delivers carries the effect and the
\* color of the snapshot published before it.
C15_TurnOnIdempotent ==
    [][(TurnOnStep /\ PowerOn) =>
          /\ UNCHANGED <<is_on, state, solid_color, cmd_queue>>
          /\ EffectAndColor(published') = EffectAndColor(published)]_vars

\* C15 witness: with the power on since start(), set_solid_color and then
\* turn_on() have returned; the last snapshot is the one turn_on delivered.
C15_Witness ==
    /\ Len(issued) = 2
    /\ issued[1].op = "set_solid_color"
    /\ issued[2].op = "turn_on"
    /\ cpc = "idle"
    /\ PowerOn
    /\ published = state
    /\ KEY_COLOR \in DOMAIN published

\* ------------------------------------------------------------- the wheel
\* the hues: (...) & 255
Hues == 0 .. 255

\* the thread start() created is in _rainbowCycle at the first pixel of phase
\* j, for every j modulo 256 (the source runs 256*5 phases); the strip holds
\* the frame of the phase before
WheelInit ==
    \E j \in Hues :
        /\ state = DictSet(DictSet(<<>>, KEY_STATE, STATE_ON), KEY_EFFECT, "rainbow")
        /\ state_callback = TRUE
        /\ cmd_queue = <<>>
        /\ animation_thread = 1
        /\ animation_running = TRUE
        /\ is_on = TRUE
        /\ solid_color = Color(255, 0, 0)
        /\ strip = [p \in Pixels |-> _wheel(Hue(p, (j + 255) % 256))]
        /\ wpc = [w \in ThreadIds |-> IF w = 1 THEN "rb_set" ELSE "none"]
        /\ wi = [w \in ThreadIds |-> 0]
        /\ wj = [w \in ThreadIds |-> IF w = 1 THEN j ELSE 0]
        /\ wcolor = [w \in ThreadIds |-> Black]
        /\ wret = [w \in ThreadIds |-> "loop"]
        /\ cpc = "idle"
        /\ ccont = <<>>
        /\ carg = NoArg
        /\ issued = <<>>
        /\ published = DictSet(DictSet(<<>>, KEY_STATE, STATE_ON), KEY_EFFECT, "rainbow")
        /\ cbBy = {Caller}
        /\ track = NoTrack

\* the statements of _rainbowCycle
WheelNext == \E w \in ThreadIds : RbSet(w) \/ RbChk(w) \/ RbShow(w)

\* one frame of the rainbow, from every phase
SpecWheel == WheelInit /\ [][WheelNext]_vars

\* the channels of a packed color, in the order of Color's arguments
Channels(c) == <<c \div 65536, (c \div 256) % 256, c % 256>>

ZeroChannels(c) == Cardinality({k \in 1 .. 3 : Channels(c)[k] = 0})

\* exactly one channel is 0 and the other two sum to 255
WheelShape(c) ==
    /\ ZeroChannels(c) = 1
    /\ Channels(c)[1] + Channels(c)[2] + Channels(c)[3] = 255

Abs(x) == IF x < 0 THEN 0 - x ELSE x

\* no channel of b differs from that of a by more than 3
Close(a, b) == \A k \in 1 .. 3 : Abs(Channels(a)[k] - Channels(b)[k]) <= 3

\* thread w writes a rainbow pixel in this step
WritesWheel(w) == wpc[w] = "rb_set" /\ wpc'[w] = "rb_chk"

\* C16 (as stated): the color _rainbowCycle writes for hue h has exactly one
\* channel 0 and the other two summing to 255, except at h in {0, 85, 170};
\* and at the first hue of a segment (85, 170, 0) no channel differs by more
\* than 3 from the color of the hue before, which the pixel held.
C16_WheelShape ==
    [][\A w \in ThreadIds : WritesWheel(w) =>
          LET h == Hue(wi[w], wj[w])
          IN /\ h \notin {0, 85, 170} => WheelShape(strip'[wi[w]])
             /\ h \in {0, 85, 170} => Close(strip[wi[w]], strip'[wi[w]])]_vars

\* C16 (amended): the same, with hue 255 among the exceptions.
C16_WheelShapeBut255 ==
    [][\A w \in ThreadIds : WritesWheel(w) =>
          LET h == Hue(wi[w], wj[w])
          IN /\ h \notin {0, 85, 170, 255} => WheelShape(strip'[wi[w]])
             /\ h \in {0, 85, 170} => Close(strip[wi[w]], strip'[wi[w]])]_vars

\* C16 witness: the worker has written the color of hue 255, which has two
\* channels 0.
C16_Witness ==
    \E w \in Threads :
        /\ wpc[w] = "rb_chk"
        /\ Hue(wi[w], wj[w]) = 255
        /\ ZeroChannels(strip[wi[w]]) = 2

\* ------------------------------------------------ set_effect powers on
\* a thread is in the render routine of effect e
Rendering(e) ==
    \E w \in Threads : IF e = "rainbow" THEN InRainbow(w) ELSE InSolidWipe(w)

\* the caller has entered set_effect(e), its last call, with the power off
SetEffectWhileOff(e) ==
    /\ cpc = "eff_set"
    /\ carg.effect = e
    /\ Len(issued) = MaxCalls
    /\ ~is_on
    /\ state[KEY_STATE] = STATE_OFF

\* the last snapshot the callback received says ON
PublishedOn == published # NoSnapshot /\ published[KEY_STATE] = STATE_ON

\* C17: set_effect(e) with a valid e, called while the power is OFF and
\* followed by no other call, leads to the power being ON for good (_is_on,
\* the state entry and the published state) with effect e recorded, and to
\* the worker rendering e again and again.
C17_SetEffectPowersOn ==
    \A e \in ValidEffectNames :
        [](SetEffectWhileOff(e) =>
              /\ <>[](PowerOn /\ state[KEY_EFFECT] = e /\ PublishedOn)
              /\ []<>Rendering(e))

\* C17 witness: after nothing but turn_off calls, set_effect was the last
\* call; the worker has applied its CMD_ON and renders the effect.
C17_Witness ==
    /\ Len(issued) = MaxCalls
    /\ LastCall.op = "set_effect"
    /\ \A k \in 1 .. (Len(issued) - 1) : issued[k].op = "turn_off"
    /\ AtRest
    /\ PowerOn
    /\ PublishedOn
    /\ state[KEY_EFFECT] = LastCall.effect
    /\ Rendering(LastCall.effect)

\* ------------------------------------------------- the publish of turn_off
\* turn_off has just delivered its snapshot (line 100) and is about to enqueue
\* its CMD_CLEAR (line 102)
OffDelivered ==
    /\ cpc = "off_put"
    /\ published # NoSnapshot
    /\ published[KEY_STATE] = STATE_OFF

\* C18: when turn_off has delivered the snapshot with state OFF, its clear
\* wipe has finished: every pixel is black.
C18_OffAfterWipe == OffDelivered => AllPixels(Black)

\* ------------------------------------------- published and real power
\* C19: whenever the queue is empty and neither the caller nor the worker is
\* in an operation, the published state is ON exactly when _is_on is true.
C19_PublishedMatchesPower == AtRest => (PublishedOn <=> is_on)

\* ------------------------------------------------------ check, then dequeue
\* a command is put at the tail of the queue in this step
Enqueued ==
    /\ Len(cmd_queue') = Len(cmd_queue) + 1
    /\ SubSeq(cmd_queue', 1, Len(cmd_queue)) = cmd_queue

\* thread w takes the head of the queue in this step and goes where that
\* command sends it
Dequeued(w) ==
    /\ wpc[w] = "get"
    /\ cmd_queue # <<>>
    /\ cmd_queue' = Tail(cmd_queue)
    /\ wpc'[w] = Dispatch(Head(cmd_queue).cmd)

\* C20: with one worker and a caller that only enqueues, the queue is not
\* empty when the worker, having seen empty() false, executes get(): get()
\* never raises queue.Empty; and the queue changes only by a put at its tail
\* or by the worker taking its head, so every command is dequeued once and
\* in the order of the puts.
C20_CheckThenGetSafe ==
    [][/\ \A w \in ThreadIds :
             /\ wpc'[w] = "get" => cmd_queue' # <<>>
             /\ wpc'[w] # "crashed"
       /\ cmd_queue' # cmd_queue =>
             (Enqueued \/ \E w \in ThreadIds : Dequeued(w))]_vars

\* C20 witness: the worker is at get() with two commands queued while the
\* caller is about to put a third.
C20_Witness ==
    /\ \E w \in Threads : wpc[w] = "get"
    /\ Len(cmd_queue) >= 2
    /\ cpc \in {"off_put", "eff_put"}

====
